---- MODULE Spec2Model ----
(***************************************************************************)
(* Model of .github/scripts/compose_repro_matrix.py: the platform index,   *)
(* the per-test-case label resolution and the final sort of the matrix.    *)
(*                                                                         *)
(* Strings are sequences of code points, so that str.lower() and Python's  *)
(* string ordering are computed rather than assumed.                       *)
(***************************************************************************)
EXTENDS Integers, Sequences, FiniteSets, TLC

VARIABLES
    pc,                      \* position in main()
    os_matrix,               \* the platform map document, in key order
    platform_labels,         \* lowercased platform -> list of labels
    label_platform,          \* label -> lowercased platform
    all_labels,              \* set(label_platform.keys())
    repros,                  \* payload["repros"] or []
    i,                       \* number of test cases the loop has consumed
    name,                    \* loop local: repro.get("name") or repro.get("id")
    normalized_supports,     \* loop local
    os_constraints,          \* loop local: repro.get("os") or {}
    candidate_labels,        \* loop local
    local_unknown_platforms, \* loop local
    local_unknown_labels,    \* loop local
    matrix_entries,
    skipped,
    unknown_platforms,
    unknown_labels

vars == <<pc, os_matrix, platform_labels, label_platform, all_labels, repros, i,
          name, normalized_supports, os_constraints, candidate_labels,
          local_unknown_platforms, local_unknown_labels,
          matrix_entries, skipped, unknown_platforms, unknown_labels>>

----------------------------------------------------------------------------
(* Strings *)

s_lin == <<108, 105, 110>>   \* "lin"
s_Lin == <<76, 105, 110>>    \* "Lin"
s_win == <<119, 105, 110>>   \* "win"
s_bsd == <<98, 115, 100>>    \* "bsd"
s_any == <<97, 110, 121>>    \* "any"
s_Any == <<65, 110, 121>>    \* "Any"
s_u1  == <<117, 49>>         \* "u1"
s_w1  == <<119, 49>>         \* "w1"
s_U1  == <<85, 49>>          \* "U1"
s_gh  == <<103, 104>>        \* "gh"
s_t1  == <<116, 49>>         \* "t1"
s_t2  == <<116, 50>>         \* "t2"

\* str.lower() on ASCII text
Lower(s) == [k \in DOMAIN s |-> IF s[k] \in 65..90 THEN s[k] + 32 ELSE s[k]]

\* Python's < on str: lexicographic by code point, a proper prefix is smaller
StrLess(a, b) ==
    \E k \in 1..(Len(a) + 1) :
        /\ \A j \in 1..(k - 1) : j <= Len(b) /\ a[j] = b[j]
        /\ k <= Len(b)
        /\ (k <= Len(a) => a[k] < b[k])

\* sorted(S) for a set of strings
RECURSIVE SortedStrings(_)
SortedStrings(S) ==
    IF S = {} THEN <<>>
    ELSE LET m == CHOOSE x \in S : \A y \in S \ {x} : StrLess(x, y)
         IN  <<m>> \o SortedStrings(S \ {m})

----------------------------------------------------------------------------
(* JSON values *)

\* an optional string field: absent/null, or a string (possibly empty)
None    == [some |-> FALSE, v |-> <<>>]
Some(x) == [some |-> TRUE, v |-> x]

\* truthiness of an optional string, as `or` and `not` see it
Truthy(o) == o.some /\ o.v # <<>>

\* a list element: a string, or a value that is no string (a number, say)
StrItem(x) == [str |-> TRUE, v |-> x]
NonStr     == [str |-> FALSE, v |-> <<>>]

\* a list-valued field: missing key, null, a list, or one bare value
Absent    == [kind |-> "absent", items |-> <<>>]
Null      == [kind |-> "null", items |-> <<>>]
List(xs)  == [kind |-> "list", items |-> xs]
Scalar(x) == [kind |-> "scalar", items |-> <<x>>]

\* a list of strings as a JSON list
StrList(xs) == List([k \in DOMAIN xs |-> StrItem(xs[k])])

as_iterable(value) ==
    IF value.kind \in {"absent", "null"} THEN <<>>
    ELSE IF value.kind = "list" THEN value.items
    ELSE <<value.items[1]>>

\* {str(item) for item in as_iterable(value) if isinstance(item, str)}
StringsOf(value) ==
    LET xs == as_iterable(value)
    IN  {xs[k].v : k \in {j \in DOMAIN xs : xs[j].str}}

\* {str(item).lower() for item in as_iterable(value) if isinstance(item, str)}
LoweredStringsOf(value) == {Lower(x) : x \in StringsOf(value)}

\* the "os" object of a test case; {} is the object with no key
EmptyOs ==
    [includePlatforms |-> Absent, includeLabels |-> Absent,
     excludePlatforms |-> Absent, excludeLabels |-> Absent]

OsKeys == {"includePlatforms", "includeLabels", "excludePlatforms", "excludeLabels"}

\* bool(os_constraints): a dict is true when it has a key
OsTruthy(os) == \E k \in OsKeys : os[k].kind # "absent"

\* repro.get("os") or {}
OsOrEmpty(os) == IF os.present /\ OsTruthy(os.obj) THEN os.obj ELSE EmptyOs

NoOs      == [present |-> FALSE, obj |-> EmptyOs]
Os(obj)   == [present |-> TRUE, obj |-> obj]

----------------------------------------------------------------------------
(* Platform index *)

EmptyIndex == [platform_labels |-> <<>>, label_platform |-> <<>>]

\* the order in which a later platform key overwrites label_platform[label]
FirstWriteWins_AddLabels(idx, normalized, labels, k) ==
    [platform_labels |->
        [idx.platform_labels EXCEPT ![normalized] = labels],
     label_platform |->
        idx.label_platform @@ [l \in {labels[j] : j \in DOMAIN labels} |-> normalized]]

\* for label in labels: platform_labels[normalized].append(label);
\*                      label_platform[label] = normalized
RECURSIVE AddLabels(_, _, _, _)
AddLabels(idx, normalized, labels, k) ==
    IF k > Len(labels) THEN idx
    ELSE AddLabels(
            [platform_labels |->
                [idx.platform_labels EXCEPT ![normalized] = Append(@, labels[k])],
             label_platform |-> (labels[k] :> normalized) @@ idx.label_platform],
            normalized, labels, k + 1)

\* for platform, labels in os_matrix.items(): ...
RECURSIVE IndexFrom(_, _, _)
IndexFrom(idx, m, k) ==
    IF k > Len(m) THEN idx
    ELSE LET normalized == Lower(m[k].platform)
             reset == [platform_labels |-> (normalized :> <<>>) @@ idx.platform_labels,
                       label_platform |-> idx.label_platform]
         IN  IndexFrom(AddLabels(reset, normalized, m[k].labels, 1), m, k + 1)

----------------------------------------------------------------------------
(* Inputs *)

MaxPlatforms == 2
MaxRepros == 2

SeqsUpTo(S, n) == UNION {[1..k -> S] : k \in 0..n}

PlatformKeys == {s_lin, s_Lin, s_win}
Labels == {s_u1, s_w1}

\* the label lists of a platform: platform_labels[p] is only ever read by
\* labels.update(...), so one order of each set of labels is drawn
LabelLists == {SortedStrings(S) : S \in SUBSET Labels}

\* a JSON object has each key once
OsMatrices ==
    {m \in SeqsUpTo([platform : PlatformKeys, labels : LabelLists], MaxPlatforms) :
        \A a, b \in DOMAIN m : a # b => m[a].platform # m[b].platform}

----------------------------------------------------------------------------
(* Resolution of one test case *)

Range(f) == {f[k] : k \in DOMAIN f}

\* unknown keys dropped without a record
collect_labels_Silent(items, pl) ==
    [labels  |-> UNION {Range(pl[Lower(item)]) :
                          item \in {x \in items : Lower(x) \in DOMAIN pl}},
     unknown |-> {}]

\* collect_labels(items, local_unknown): the labels it returns, and the keys
\* it adds to local_unknown and to unknown_platforms
collect_labels(items, pl) ==
    [labels  |-> UNION {Range(pl[Lower(item)]) :
                          item \in {x \in items : Lower(x) \in DOMAIN pl}},
     unknown |-> {Lower(item) : item \in {x \in items : Lower(x) \notin DOMAIN pl}}]

\* the name without its fallback to the id
CaseName_NameOnly(repro) == repro.name

\* name = repro.get("name") or repro.get("id")
CaseName(repro) == IF Truthy(repro.name) THEN repro.name ELSE repro.id

\* "any" looked up as a platform like the others
InitialCandidates_AnyIsPlatform(supports, pl, all) ==
    IF supports = {}
    THEN [labels |-> all, unknown |-> {}]
    ELSE collect_labels(supports, pl)

\* lines 63-66: the candidate set before the os constraints
InitialCandidates(supports, pl, all) ==
    IF supports = {} \/ s_any \in supports
    THEN [labels |-> all, unknown |-> {}]
    ELSE collect_labels(supports, pl)

\* lines 90-91
IncludePlatforms(c, include_platforms, pl) ==
    IF include_platforms # {}
    THEN LET got == collect_labels(include_platforms, pl)
         IN  [labels |-> c \cap got.labels, unknown |-> got.unknown]
    ELSE [labels |-> c, unknown |-> {}]

\* an include list without a known label left without effect
IncludeLabels_AllUnknownKeeps(c, include_labels, lp) ==
    IF include_labels # {}
    THEN LET recognized_includes == {l \in include_labels : l \in DOMAIN lp}
         IN  [labels  |-> c \cap (IF recognized_includes # {}
                                  THEN recognized_includes ELSE c),
              unknown |-> {l \in include_labels : l \notin DOMAIN lp}]
    ELSE [labels |-> c, unknown |-> {}]

\* lines 93-97
IncludeLabels(c, include_labels, lp) ==
    IF include_labels # {}
    THEN LET recognized_includes == {l \in include_labels : l \in DOMAIN lp}
         IN  [labels  |-> c \cap (IF recognized_includes # {}
                                  THEN recognized_includes ELSE {}),
              unknown |-> {l \in include_labels : l \notin DOMAIN lp}]
    ELSE [labels |-> c, unknown |-> {}]

\* an unknown excluded platform emptying the candidates, as an unknown
\* include list does
ExcludePlatforms_UnknownEmpties(c, exclude_platforms, pl) ==
    IF exclude_platforms # {}
    THEN LET got == collect_labels(exclude_platforms, pl)
         IN  [labels |-> IF got.unknown # {} THEN {} ELSE c \ got.labels,
              unknown |-> got.unknown]
    ELSE [labels |-> c, unknown |-> {}]

\* lines 99-100
ExcludePlatforms(c, exclude_platforms, pl) ==
    IF exclude_platforms # {}
    THEN LET got == collect_labels(exclude_platforms, pl)
         IN  [labels |-> c \ got.labels, unknown |-> got.unknown]
    ELSE [labels |-> c, unknown |-> {}]

\* lines 102-107
ExcludeLabels(c, exclude_labels, lp) ==
    IF exclude_labels # {}
    THEN LET recognized_excludes == {l \in exclude_labels : l \in DOMAIN lp}
             unrecognized == {l \in exclude_labels : l \notin DOMAIN lp}
         IN  [labels |-> c \ recognized_excludes, unknown |-> unrecognized]
    ELSE [labels |-> c, unknown |-> {}]

\* lines 57-109: the loop body of a named test case up to the final
\* candidate set, with the unknown references it records
Resolve(repro, pl, lp, all) ==
    LET supports == LoweredStringsOf(repro.supports)
        os       == OsOrEmpty(repro.os)
        s0 == InitialCandidates(supports, pl, all)
        s1 == IncludePlatforms(s0.labels, LoweredStringsOf(os.includePlatforms), pl)
        s2 == IncludeLabels(s1.labels, StringsOf(os.includeLabels), lp)
        s3 == ExcludePlatforms(s2.labels, LoweredStringsOf(os.excludePlatforms), pl)
        s4 == ExcludeLabels(s3.labels, StringsOf(os.excludeLabels), lp)
    IN  [name                    |-> CaseName(repro),
         normalized_supports     |-> supports,
         os_constraints          |-> os,
         candidate_labels        |-> s4.labels \cap all,
         local_unknown_platforms |-> s0.unknown \cup s1.unknown \cup s3.unknown,
         local_unknown_labels    |-> s2.unknown \cup s4.unknown]

\* lines 112-119: one entry per label of sorted(candidate_labels)
EntriesFor(n, labels, lp) ==
    LET sorted == SortedStrings(labels)
    IN  [k \in DOMAIN sorted |->
            [os |-> sorted[k], repro |-> n, platform |-> lp[sorted[k]]]]

\* the segments with the os flag ahead of the supports
ReasonSegments_OsFirst(r) ==
       (IF OsTruthy(r.os_constraints)
        THEN <<[kind |-> "os constraints applied", items |-> <<>>]>>
        ELSE <<>>)
    \o (IF r.normalized_supports # {}
        THEN <<[kind |-> "supports", items |-> SortedStrings(r.normalized_supports)]>>
        ELSE <<>>)
    \o (IF r.local_unknown_platforms # {}
        THEN <<[kind |-> "unknown platforms",
                items |-> SortedStrings(r.local_unknown_platforms)]>>
        ELSE <<>>)
    \o (IF r.local_unknown_labels # {}
        THEN <<[kind |-> "unknown labels",
                items |-> SortedStrings(r.local_unknown_labels)]>>
        ELSE <<>>)

\* lines 121-129: reason_segments; a segment is its text before "=" and the
\* sorted list printed after it
ReasonSegments(r) ==
       (IF r.normalized_supports # {}
        THEN <<[kind |-> "supports", items |-> SortedStrings(r.normalized_supports)]>>
        ELSE <<>>)
    \o (IF OsTruthy(r.os_constraints)
        THEN <<[kind |-> "os constraints applied", items |-> <<>>]>>
        ELSE <<>>)
    \o (IF r.local_unknown_platforms # {}
        THEN <<[kind |-> "unknown platforms",
                items |-> SortedStrings(r.local_unknown_platforms)]>>
        ELSE <<>>)
    \o (IF r.local_unknown_labels # {}
        THEN <<[kind |-> "unknown labels",
                items |-> SortedStrings(r.local_unknown_labels)]>>
        ELSE <<>>)

NoMatchingRunners == <<[kind |-> "no matching runners", items |-> <<>>]>>

\* the join without its fallback text
Reason_NoFallback(segments) == segments

\* line 130: "; ".join(reason_segments) or "no matching runners"; the joined
\* text is kept as the list of its segments
Reason(segments) == IF segments # <<>> THEN segments ELSE NoMatchingRunners

\* line 131: f"{name} ({reason})"
SkippedLine(r) == [name |-> r.name.v, reason |-> Reason(ReasonSegments(r))]

----------------------------------------------------------------------------
(* Sorting *)

\* (entry["repro"], entry["os"]) < (...), as Python compares tuples
KeyLess(e1, e2) ==
    \/ StrLess(e1.repro, e2.repro)
    \/ e1.repro = e2.repro /\ StrLess(e1.os, e2.os)

\* insert e behind every entry whose key is not greater (the sort is stable)
InsertSorted(sorted, e) ==
    LET before == {k \in DOMAIN sorted : ~KeyLess(e, sorted[k])}
        n == IF before = {} THEN 0
             ELSE CHOOSE k \in before : \A j \in before : j <= k
    IN  SubSeq(sorted, 1, n) \o <<e>> \o SubSeq(sorted, n + 1, Len(sorted))

RECURSIVE SortFrom(_, _, _)
SortFrom(sorted, entries, k) ==
    IF k > Len(entries) THEN sorted
    ELSE SortFrom(InsertSorted(sorted, entries[k]), entries, k + 1)

\* the entries left in the order the loop appended them
SortEntries_Unsorted(entries) == entries

\* line 133: matrix_entries.sort(key=lambda entry: (entry["repro"], entry["os"]))
SortEntries(entries) == SortFrom(<<>>, entries, 1)

----------------------------------------------------------------------------
(* Test-case documents *)

Case(n, d, s, o) == [name |-> n, id |-> d, supports |-> s, os |-> o]

SupportsValues ==
    { Absent,
      List(<<NonStr>>),
      Scalar(StrItem(s_Lin)),
      StrList(<<s_win, s_bsd>>),
      List(<<NonStr, StrItem(s_Any), StrItem(s_bsd)>>) }

OsObjects ==
    [includePlatforms : {Absent, StrList(<<s_Lin>>), StrList(<<s_win, s_bsd>>)},
     includeLabels    : {Absent, StrList(<<s_u1>>), StrList(<<s_gh>>),
                         StrList(<<s_w1, s_gh>>)},
     excludePlatforms : {Absent, StrList(<<s_lin>>), Scalar(StrItem(s_bsd))},
     excludeLabels    : {Absent, Null, List(<<StrItem(s_u1), StrItem(s_U1), NonStr>>)}]

OsValues == {NoOs} \cup {Os(o) : o \in OsObjects}

\* the test cases of the documents that hold one: every combination of a
\* supports value and an os value
Cases == {Case(Some(s_t1), None, s, o) : s \in SupportsValues, o \in OsValues}

\* the test cases of the documents that hold more than one: the ways to
\* give or omit name and id, with known and unknown references
CoreCases ==
    { Case(Some(s_t1), None, Absent, NoOs),
      Case(Some(s_t1), None, StrList(<<s_bsd>>),
           Os([EmptyOs EXCEPT !.excludeLabels = StrList(<<s_gh>>)])),
      Case(Some(<<>>), Some(s_t2), StrList(<<s_Lin>>),
           Os([EmptyOs EXCEPT !.includePlatforms = StrList(<<s_win, s_bsd>>)])),
      Case(None, None, StrList(<<s_bsd>>),
           Os([EmptyOs EXCEPT !.includeLabels = StrList(<<s_gh>>)])),
      Case(Some(s_t2), Some(s_t1), StrList(<<s_Any, s_bsd>>),
           Os([EmptyOs EXCEPT !.excludePlatforms = StrList(<<s_Lin>>)])),
      Case(None, Some(s_t1), Absent,
           Os([EmptyOs EXCEPT !.includeLabels = StrList(<<s_u1, s_gh>>)])) }

\* payload.get("repros") or []
ReproDocuments ==
    {<<c>> : c \in Cases} \cup SeqsUpTo(CoreCases, MaxRepros)

----------------------------------------------------------------------------
(* main() *)

Init ==
    /\ pc = "index"
    /\ os_matrix \in OsMatrices
    /\ platform_labels = <<>>
    /\ label_platform = <<>>
    /\ all_labels = {}
    /\ repros = <<>>
    /\ i = 0
    /\ name = None
    /\ normalized_supports = {}
    /\ os_constraints = EmptyOs
    /\ candidate_labels = {}
    /\ local_unknown_platforms = {}
    /\ local_unknown_labels = {}
    /\ matrix_entries = <<>>
    /\ skipped = <<>>
    /\ unknown_platforms = {}
    /\ unknown_labels = {}

locals == <<normalized_supports, os_constraints, candidate_labels,
            local_unknown_platforms, local_unknown_labels>>
index == <<os_matrix, platform_labels, label_platform, all_labels>>
accumulators == <<matrix_entries, skipped, unknown_platforms, unknown_labels>>

\* lines 20-31
BuildIndex ==
    /\ pc = "index"
    /\ LET idx == IndexFrom(EmptyIndex, os_matrix, 1)
       IN  /\ platform_labels' = idx.platform_labels
           /\ label_platform' = idx.label_platform
           /\ all_labels' = DOMAIN idx.label_platform
    /\ pc' = "load"
    /\ UNCHANGED <<os_matrix, repros, i, name, locals, accumulators>>

\* lines 33-39
LoadRepros ==
    /\ pc = "load"
    /\ repros' \in ReproDocuments
    /\ matrix_entries' = <<>>
    /\ skipped' = <<>>
    /\ unknown_platforms' = {}
    /\ unknown_labels' = {}
    /\ pc' = "loop"
    /\ UNCHANGED <<index, i, name, locals>>

\* lines 52-55: a test case without name and id
SkipUnnamed ==
    /\ pc = "loop"
    /\ i < Len(repros)
    /\ ~Truthy(CaseName(repros[i + 1]))
    /\ name' = CaseName(repros[i + 1])
    /\ i' = i + 1
    /\ UNCHANGED <<pc, index, repros, locals, accumulators>>

\* what lines 57-109 assign
Resolved(r) ==
    /\ name' = r.name
    /\ normalized_supports' = r.normalized_supports
    /\ os_constraints' = r.os_constraints
    /\ candidate_labels' = r.candidate_labels
    /\ local_unknown_platforms' = r.local_unknown_platforms
    /\ local_unknown_labels' = r.local_unknown_labels
    /\ unknown_platforms' = unknown_platforms \cup r.local_unknown_platforms
    /\ unknown_labels' = unknown_labels \cup r.local_unknown_labels

\* lines 52-119: a test case with candidate labels
EmitEntries ==
    /\ pc = "loop"
    /\ i < Len(repros)
    /\ Truthy(CaseName(repros[i + 1]))
    /\ LET r == Resolve(repros[i + 1], platform_labels, label_platform, all_labels)
       IN  /\ r.candidate_labels # {}
           /\ Resolved(r)
           /\ matrix_entries' =
                matrix_entries \o EntriesFor(r.name.v, r.candidate_labels, label_platform)
    /\ i' = i + 1
    /\ UNCHANGED <<pc, index, repros, skipped>>

\* lines 52-109 and 120-131: a test case without candidate labels
EmitSkipped ==
    /\ pc = "loop"
    /\ i < Len(repros)
    /\ Truthy(CaseName(repros[i + 1]))
    /\ LET r == Resolve(repros[i + 1], platform_labels, label_platform, all_labels)
       IN  /\ r.candidate_labels = {}
           /\ Resolved(r)
           /\ skipped' = Append(skipped, SkippedLine(r))
    /\ i' = i + 1
    /\ UNCHANGED <<pc, index, repros, matrix_entries>>

\* line 133, after the loop
Sort ==
    /\ pc = "loop"
    /\ i = Len(repros)
    /\ matrix_entries' = SortEntries(matrix_entries)
    /\ pc' = "done"
    /\ UNCHANGED <<index, repros, i, name, locals, skipped,
                   unknown_platforms, unknown_labels>>

Next == BuildIndex \/ LoadRepros \/ SkipUnnamed \/ EmitEntries \/ EmitSkipped \/ Sort

Spec == Init /\ [][Next]_vars

----------------------------------------------------------------------------
(* Vocabulary of the properties *)

\* the test case the loop consumed last
Last == repros[i]

InLoop == pc \in {"loop", "done"} /\ i >= 1

\* the test case has a name or an id
Named(c) == Truthy(c.name) \/ Truthy(c.id)
NameOf(c) == IF Truthy(c.name) THEN c.name.v ELSE c.id.v

\* the os object a test case carries (none counts as the empty object)
OsOf(c) == IF c.os.present THEN c.os.obj ELSE EmptyOs

SupportsOf(c)         == {Lower(x) : x \in StringsOf(c.supports)}
IncludePlatformsOf(c) == {Lower(x) : x \in StringsOf(OsOf(c).includePlatforms)}
ExcludePlatformsOf(c) == {Lower(x) : x \in StringsOf(OsOf(c).excludePlatforms)}
IncludeLabelsOf(c)    == StringsOf(OsOf(c).includeLabels)
ExcludeLabelsOf(c)    == StringsOf(OsOf(c).excludeLabels)

\* supports restricts the case: it is non-empty and does not hold "any"
Restricting(c) == SupportsOf(c) # {} /\ s_any \notin SupportsOf(c)

\* the platform identifiers and the labels a test case refers to
PlatformRefs(c) ==
    (IF Restricting(c) THEN SupportsOf(c) ELSE {})
        \cup IncludePlatformsOf(c) \cup ExcludePlatformsOf(c)
LabelRefs(c) == IncludeLabelsOf(c) \cup ExcludeLabelsOf(c)

\* the final candidate set of a test case under the index of the run
FinalCandidates(c) ==
    Resolve(c, platform_labels, label_platform, all_labels).candidate_labels

\* the lowercased platform keys whose list in the platform map holds label l
DeclaringPlatforms(l) ==
    {Lower(os_matrix[k].platform) :
        k \in {j \in DOMAIN os_matrix : l \in Range(os_matrix[j].labels)}}

\* the order of the matrix: (repro, os), lexicographic
PairLess(a, b) ==
    \/ StrLess(a.repro, b.repro)
    \/ a.repro = b.repro /\ StrLess(a.os, b.os)

\* a JSON list-valued field with the string x added
WithItem(value, x) == List(as_iterable(value) \o <<StrItem(x)>>)

\* the test case with x added to one list of its os object
WithOsItem(c, key, x) ==
    [c EXCEPT !.os = Os([OsOf(c) EXCEPT ![key] = WithItem(@, x)])]

\* identifiers the properties add to a test case
ProbePlatforms == {s_bsd, s_lin, s_Lin, s_win, s_Any}
ProbeLabels == {s_gh, s_U1, s_u1, s_w1}

----------------------------------------------------------------------------
(* C1: order of the final matrix *)

Ascending(m)         == \A k \in 1..(Len(m) - 1) : ~PairLess(m[k + 1], m[k])
StrictlyAscending(m) == \A k \in 1..(Len(m) - 1) : PairLess(m[k], m[k + 1])

\* no two named test cases of the document resolve to the same name
DistinctNames ==
    \A a, b \in DOMAIN repros :
        (a # b /\ Named(repros[a]) /\ Named(repros[b]))
            => NameOf(repros[a]) # NameOf(repros[b])

\* C1 as stated: for every platform map and every list of test cases, the
\* final matrix is strictly ascending in (repro, os), so no two entries share
\* both fields.
C1_StrictlyAscending == pc = "done" => StrictlyAscending(matrix_entries)

\* C1 amended: the final matrix is ascending in (repro, os), every entry
\* being less than or equal to its successor; it is strictly ascending when
\* no two named test cases resolve to the same name.
C1_Ascending ==
    pc = "done" =>
        /\ Ascending(matrix_entries)
        /\ DistinctNames => StrictlyAscending(matrix_entries)

\* two test cases with entries, the later one with the smaller name
C1_Witness ==
    /\ pc = "done"
    /\ Len(repros) = 2
    /\ Named(repros[1]) /\ Named(repros[2])
    /\ StrLess(NameOf(repros[2]), NameOf(repros[1]))
    /\ FinalCandidates(repros[1]) # {} /\ FinalCandidates(repros[2]) # {}
    /\ Len(matrix_entries) >= 3

----------------------------------------------------------------------------
(* C2: the platform of an entry *)

\* the lowercased key of the last platform of the map that lists label l
LastDeclaring(l) ==
    LET js == {j \in DOMAIN os_matrix : l \in Range(os_matrix[j].labels)}
    IN  Lower(os_matrix[CHOOSE j \in js : \A k \in js : k <= j].platform)

\* C2 as stated: the label of every entry is declared in the platform map,
\* under the platform of the entry and under no other platform.
C2_DeclaredUnderExactlyThePlatform ==
    \A k \in DOMAIN matrix_entries :
        DeclaringPlatforms(matrix_entries[k].os) = {matrix_entries[k].platform}

\* C2 amended: the label of every entry is declared in the platform map, and
\* the platform of the entry is the lowercased key of the last platform of
\* the map that lists the label (other platforms may list it too).
C2_DeclaredUnderLastPlatform ==
    \A k \in DOMAIN matrix_entries :
        /\ DeclaringPlatforms(matrix_entries[k].os) # {}
        /\ matrix_entries[k].platform = LastDeclaring(matrix_entries[k].os)

\* an entry whose label two platforms list
C2_Witness ==
    /\ pc = "done"
    /\ \E k \in DOMAIN matrix_entries :
          Cardinality(DeclaringPlatforms(matrix_entries[k].os)) = 2

----------------------------------------------------------------------------
(* C3: test cases without candidates *)

NamedCases == {k \in DOMAIN repros : Named(repros[k])}
EmptyCases == {k \in NamedCases : FinalCandidates(repros[k]) = {}}

\* the j-th smallest element of a set of numbers
Nth(S, j) == CHOOSE k \in S : Cardinality({x \in S : x <= k}) = j

\* C3 as stated: no entry of the final matrix carries the name of a named
\* test case whose final candidate set is empty, the skipped list holds a
\* line "<name> (<non-empty reason>)" for it, and the named test cases with
\* candidates add no line.
C3_NameNeverInMatrix ==
    pc = "done" =>
        /\ \A k \in EmptyCases :
              /\ \A j \in DOMAIN matrix_entries :
                    matrix_entries[j].repro # NameOf(repros[k])
              /\ \E j \in DOMAIN skipped :
                    /\ skipped[j].name = NameOf(repros[k])
                    /\ skipped[j].reason # <<>>
        /\ Len(skipped) = Cardinality(EmptyCases)

\* C3 amended: a named test case whose final candidate set is empty adds no
\* entry to the matrix: the entries that carry a name are one per label of
\* the candidate set of each test case of that name, so the name of a skipped
\* case is in the matrix only through another case of the same name.  The
\* skipped list holds, in input order, one line "<name> (<non-empty reason>)"
\* per named test case without candidates and no other line.
C3_AddsNoEntry ==
    pc = "done" =>
        /\ \A n \in {NameOf(repros[k]) : k \in NamedCases} :
              Cardinality({j \in DOMAIN matrix_entries : matrix_entries[j].repro = n})
                = Cardinality(UNION {{<<k, l>> : l \in FinalCandidates(repros[k])} :
                                        k \in {x \in NamedCases : NameOf(repros[x]) = n}})
        /\ \A j \in DOMAIN matrix_entries :
              matrix_entries[j].repro \in {NameOf(repros[k]) : k \in NamedCases}
        /\ Len(skipped) = Cardinality(EmptyCases)
        /\ \A j \in DOMAIN skipped :
              /\ skipped[j].name = NameOf(repros[Nth(EmptyCases, j)])
              /\ skipped[j].reason # <<>>

\* a skipped test case whose name the matrix holds through another case
C3_Witness ==
    /\ pc = "done"
    /\ \E k \in EmptyCases :
          \E j \in DOMAIN matrix_entries : matrix_entries[j].repro = NameOf(repros[k])

----------------------------------------------------------------------------
(* C4-C6: a test case against a variant of it *)

\* the loop consumes the named test case c in this step
Consumes(c) == pc = "loop" /\ i' = i + 1 /\ c = repros[i + 1] /\ Named(c)

\* what the run does with the named test case v in place of the one it reads
VariantAppends(v) ==
    EntriesFor(NameOf(v), FinalCandidates(v), label_platform)
VariantUnknownPlatforms(v) ==
    Resolve(v, platform_labels, label_platform, all_labels).local_unknown_platforms
VariantUnknownLabels(v) ==
    Resolve(v, platform_labels, label_platform, all_labels).local_unknown_labels

WithoutSupports(c) == [c EXCEPT !.supports = Absent]

\* C4: a supports list that holds "any" in any letter case, alone or with
\* other identifiers, has the effect of no supports field: the same entries,
\* the same skipped-or-not outcome, the same run-wide unknown sets.
C4_AnyIsNoSupports ==
    [][\A c \in {repros[k] : k \in {i + 1} \cap DOMAIN repros} :
          (Consumes(c) /\ s_any \in SupportsOf(c)) =>
              /\ matrix_entries' = matrix_entries \o VariantAppends(WithoutSupports(c))
              /\ (skipped' = skipped) <=> (FinalCandidates(WithoutSupports(c)) # {})
              /\ Len(skipped') =
                    Len(skipped) + (IF FinalCandidates(WithoutSupports(c)) = {} THEN 1 ELSE 0)
              /\ unknown_platforms' =
                    unknown_platforms \cup VariantUnknownPlatforms(WithoutSupports(c))
              /\ unknown_labels' =
                    unknown_labels \cup VariantUnknownLabels(WithoutSupports(c))]_vars

\* "Any" next to an unknown platform: entries, and nothing recorded
C4_Witness ==
    /\ pc = "loop" /\ i >= 1 /\ Named(Last)
    /\ s_any \in SupportsOf(Last) /\ s_bsd \in SupportsOf(Last)
    /\ candidate_labels # {}
    /\ matrix_entries # <<>>
    /\ unknown_platforms = {}

\* C5: a platform identifier outside the platform index, added to
\* os.excludePlatforms (empty before or not), leaves the entries of the test
\* case unchanged.
C5_UnknownExcludeIsNoOp ==
    [][\A c \in {repros[k] : k \in {i + 1} \cap DOMAIN repros} :
          Consumes(c) =>
              \A x \in {y \in ProbePlatforms : Lower(y) \notin DOMAIN platform_labels} :
                  /\ FinalCandidates(WithOsItem(c, "excludePlatforms", x)) = candidate_labels'
                  /\ matrix_entries' =
                        matrix_entries \o VariantAppends(WithOsItem(c, "excludePlatforms", x))]_vars

\* a case that excludes a known platform and keeps entries, with an unknown
\* identifier at hand
C5_Witness ==
    /\ pc = "loop" /\ i >= 1 /\ Named(Last)
    /\ ExcludePlatformsOf(Last) \cap DOMAIN platform_labels # {}
    /\ candidate_labels # {}
    /\ matrix_entries # <<>>
    /\ \E y \in ProbePlatforms : Lower(y) \notin DOMAIN platform_labels

\* the includeLabels field has exactly one element, the string x
OnlyIncludeLabel(c, x) ==
    /\ as_iterable(OsOf(c).includeLabels) = <<StrItem(x)>>

\* C6: a label outside the platform index, added to os.includeLabels, yields
\* a subset of the candidates; when it is the only include label the final
\* candidate set is empty, the case gets no entry and is listed as skipped.
C6_UnknownIncludeNarrows ==
    [][\A c \in {repros[k] : k \in {i + 1} \cap DOMAIN repros} :
          Consumes(c) =>
              \A x \in {y \in ProbeLabels : y \notin DOMAIN label_platform} :
                  /\ FinalCandidates(WithOsItem(c, "includeLabels", x)) \subseteq candidate_labels'
                  /\ as_iterable(OsOf(c).includeLabels) = <<>> =>
                        FinalCandidates(WithOsItem(c, "includeLabels", x)) = {}
                  /\ OnlyIncludeLabel(c, x) =>
                        /\ candidate_labels' = {}
                        /\ matrix_entries' = matrix_entries
                        /\ Len(skipped') = Len(skipped) + 1
                        /\ skipped'[Len(skipped')].name = NameOf(c)]_vars

\* a case that has candidates without its only, unknown, include label
C6_Witness ==
    /\ pc = "loop" /\ i >= 1 /\ Named(Last)
    /\ OnlyIncludeLabel(Last, s_gh)
    /\ s_gh \notin DOMAIN label_platform
    /\ FinalCandidates([Last EXCEPT !.os = Os([OsOf(Last) EXCEPT !.includeLabels = Absent])]) # {}
    /\ candidate_labels = {}
    /\ skipped # <<>>

----------------------------------------------------------------------------
(* C7: unknown references *)

\* the named test cases the loop has consumed
ConsumedNamed == {k \in 1..i : Named(repros[k])}

\* C7: unknown references are recorded and never stop the run.  The run-wide
\* unknown-platform set is exactly the set of lowercased identifiers outside
\* the platform index that a named test case names in a restricting supports
\* list, in os.includePlatforms or in os.excludePlatforms; the unknown-label
\* set is exactly the set of labels outside the label index that a named
\* test case names in os.includeLabels or os.excludeLabels; the loop reaches
\* the end of the document, and every named test case has an entry or a
\* skipped line.
C7_UnknownReferencesRecorded ==
    pc \in {"loop", "done"} =>
        /\ unknown_platforms =
              UNION {PlatformRefs(repros[k]) : k \in ConsumedNamed} \ DOMAIN platform_labels
        /\ unknown_labels =
              UNION {LabelRefs(repros[k]) : k \in ConsumedNamed} \ DOMAIN label_platform
        /\ \A k \in ConsumedNamed :
              \/ \E j \in DOMAIN matrix_entries : matrix_entries[j].repro = NameOf(repros[k])
              \/ \E j \in DOMAIN skipped : skipped[j].name = NameOf(repros[k])
        /\ pc = "done" => i = Len(repros)

\* a test case with an unknown platform and an unknown label, and entries
\* for the test case after it
C7_Witness ==
    /\ pc = "done"
    /\ Len(repros) = 2
    /\ Named(repros[1]) /\ Named(repros[2])
    /\ PlatformRefs(repros[1]) \ DOMAIN platform_labels # {}
    /\ LabelRefs(repros[1]) \ DOMAIN label_platform # {}
    /\ FinalCandidates(repros[2]) # {}
    /\ \E j \in DOMAIN matrix_entries : matrix_entries[j].repro = NameOf(repros[2])
    /\ unknown_platforms # {} /\ unknown_labels # {}

----------------------------------------------------------------------------
(* C8: test cases without a name *)

\* C8: a test case with neither a name nor an id (missing or empty) changes
\* neither the matrix, nor the skipped list, nor the unknown sets, whatever
\* its supports and os fields refer to; a test case with a missing or empty
\* name and a non-empty id is processed under its id.
C8_UnnamedChangesNothing ==
    [][\A c \in {repros[k] : k \in {i + 1} \cap DOMAIN repros} :
          (pc = "loop" /\ i' = i + 1) =>
              /\ (~Truthy(c.name) /\ ~Truthy(c.id)) =>
                    /\ matrix_entries' = matrix_entries
                    /\ skipped' = skipped
                    /\ unknown_platforms' = unknown_platforms
                    /\ unknown_labels' = unknown_labels
              /\ (~Truthy(c.name) /\ Truthy(c.id)) =>
                    /\ name' = c.id
                    /\ Len(matrix_entries') + Len(skipped')
                          > Len(matrix_entries) + Len(skipped)
                    /\ \A j \in (Len(matrix_entries) + 1)..Len(matrix_entries') :
                          matrix_entries'[j].repro = c.id.v
                    /\ \A j \in (Len(skipped) + 1)..Len(skipped') :
                          skipped'[j].name = c.id.v]_vars

\* a consumed test case without name and id that refers to an unknown
\* platform and an unknown label, after a test case that left entries
C8_Witness ==
    /\ pc = "loop" /\ i >= 2
    /\ ~Truthy(Last.name) /\ ~Truthy(Last.id)
    /\ PlatformRefs(Last) \ DOMAIN platform_labels # {}
    /\ LabelRefs(Last) \ DOMAIN label_platform # {}
    /\ matrix_entries # <<>>
    /\ unknown_platforms = {} /\ unknown_labels = {}

----------------------------------------------------------------------------
(* C9: the skip reason *)

\* items is the ascending list of the elements of S
SortedListOf(items, S) ==
    /\ Range(items) = S
    /\ \A k \in 1..(Len(items) - 1) : StrLess(items[k], items[k + 1])

\* the segments that apply to test case c, in the order of the claim
ExpectedSegments(c) ==
       (IF SupportsOf(c) # {}
        THEN <<[kind |-> "supports", set |-> SupportsOf(c)]>> ELSE <<>>)
    \o (IF OsTruthy(OsOf(c))
        THEN <<[kind |-> "os constraints applied", set |-> {}]>> ELSE <<>>)
    \o (IF PlatformRefs(c) \ DOMAIN platform_labels # {}
        THEN <<[kind |-> "unknown platforms",
                set |-> PlatformRefs(c) \ DOMAIN platform_labels]>> ELSE <<>>)
    \o (IF LabelRefs(c) \ DOMAIN label_platform # {}
        THEN <<[kind |-> "unknown labels",
                set |-> LabelRefs(c) \ DOMAIN label_platform]>> ELSE <<>>)

\* the named test case consumed last was skipped
LastSkipped == pc = "loop" /\ i >= 1 /\ Named(Last) /\ candidate_labels = {}

\* C9: the reason of a skipped test case is made of the segments that apply,
\* in the order supports, "os constraints applied", unknown platforms,
\* unknown labels; it is "no matching runners" exactly when none applies,
\* and then the platform map declares no label.
C9_SkipReason ==
    LastSkipped =>
        LET line == skipped[Len(skipped)]
            want == ExpectedSegments(Last)
        IN  /\ line.name = NameOf(Last)
            /\ (line.reason = NoMatchingRunners) <=> (want = <<>>)
            /\ want = <<>> => all_labels = {}
            /\ want # <<>> =>
                  /\ Len(line.reason) = Len(want)
                  /\ \A k \in DOMAIN want :
                        /\ line.reason[k].kind = want[k].kind
                        /\ SortedListOf(line.reason[k].items, want[k].set)

\* a reason with all four segments
C9_Witness ==
    /\ LastSkipped
    /\ Len(skipped[Len(skipped)].reason) = 4
    /\ Cardinality(SupportsOf(Last)) = 2

----------------------------------------------------------------------------
(* C10: the platform of an entry against the filters of its test case *)

\* the entries the loop appended for the named test case consumed last
LastEntries ==
    {matrix_entries[j] :
        j \in (Len(matrix_entries) - Cardinality(candidate_labels) + 1)..Len(matrix_entries)}

\* C10: every entry of a test case passes the platform filters of the case
\* as its own platform field tells: the platform is among the supports when
\* these restrict, among os.includePlatforms when these are given, and not
\* among os.excludePlatforms; its label is not among os.excludeLabels.
C10_EntriesPassFilters ==
    (pc = "loop" /\ i >= 1 /\ Named(Last)) =>
        \A e \in LastEntries :
            /\ Restricting(Last) => e.platform \in SupportsOf(Last)
            /\ IncludePlatformsOf(Last) # {} => e.platform \in IncludePlatformsOf(Last)
            /\ e.platform \notin ExcludePlatformsOf(Last)
            /\ e.os \notin ExcludeLabelsOf(Last)

====
